---- MODULE Spec2Model ----
(***************************************************************************)
(* ReVCS native helper: open_editor (fork / execlp / wait) and the JNI     *)
(* entry point Java_com_dheerajshyam_revcs_Staging_open_1editor.           *)
(*                                                                         *)
(* Processes: the host process (the JVM that calls the helper), the        *)
(* children created by open_editor's fork (one per invocation), and the    *)
(* other children the host process may have.  Every process that runs      *)
(* open_editor's code has a position pc in it; a child starts at the       *)
(* statement after fork with its own copy of the locals.                   *)
(***************************************************************************)
EXTENDS Integers, Sequences, FiniteSets, TLC

(* ------------------------------ bounds --------------------------------- *)

\* longest host string / filename, in characters
MaxLen == 1

\* number of invocations of the helper in one run of the host
MaxCalls == 1

\* number of children of the host process not created by open_editor
NumOther == 1

(* ------------------------------ constants ------------------------------ *)

Host == 0

Kids == 1..MaxCalls

Procs == {Host} \cup Kids

\* main.cpp:4    string editor = "vi";
editor == <<118, 105>>

\* main.cpp:18   the text written to cerr
DiagText == "Unable to call editor right now, exiting with status -1."

\* main.cpp:20   exit(-1)
ExitCode == -1

\* the value fork() returns on failure, main.cpp:8
ForkError == -1

\* the value fork() returns in the child, main.cpp:10
ForkChild == 0

\* the value wait() returns when it reaps nothing (EINTR)
WaitError == -1

\* characters of the host strings: U+0000, U+0020 (space), U+00E9, U+1F600
CodePoints == {0, 32, 233, 128512}

\* a pid of another child of the host (the pids of the editors are 1..MaxCalls)
OtherPid == MaxCalls + 1

(* ------------------------- strings and encodings ----------------------- *)

SeqsUpTo(S, n) == UNION {[1..m -> S] : m \in 0..n}

RECURSIVE Flat(_)
Flat(ss) == IF ss = <<>> THEN <<>> ELSE Head(ss) \o Flat(Tail(ss))

\* standard UTF-8 of one code point: the bytes of an OS argument
UTF8Char(c) ==
  IF c < 128 THEN <<c>>
  ELSE IF c < 2048 THEN <<192 + (c \div 64), 128 + (c % 64)>>
  ELSE IF c < 65536 THEN <<224 + (c \div 4096), 128 + ((c \div 64) % 64), 128 + (c % 64)>>
  ELSE <<240 + (c \div 262144), 128 + ((c \div 4096) % 64),
         128 + ((c \div 64) % 64), 128 + (c % 64)>>

UTF8(cps) == Flat([i \in 1..Len(cps) |-> UTF8Char(cps[i])])

\* UTF-16 code units of one code point: the contents of a host (Java) string
UTF16Char(c) ==
  IF c < 65536 THEN <<c>>
  ELSE <<55296 + ((c - 65536) \div 1024), 56320 + ((c - 65536) % 1024)>>

\* encode(S): the host string whose characters are cps
UTF16(cps) == Flat([i \in 1..Len(cps) |-> UTF16Char(cps[i])])

\* modified UTF-8 of one UTF-16 code unit, as JNI's GetStringUTFChars emits it:
\* U+0000 as C0 80, every surrogate as a 3-byte sequence of its own
ModUTF8Unit(u) ==
  IF u = 0 THEN <<192, 128>>
  ELSE IF u < 128 THEN <<u>>
  ELSE IF u < 2048 THEN <<192 + (u \div 64), 128 + (u % 64)>>
  ELSE <<224 + (u \div 4096), 128 + ((u \div 64) % 64), 128 + (u % 64)>>

\* env->GetStringUTFChars(file_name, &isCopy): the NUL-terminated buffer
GetStringUTFChars(js) == Flat([i \in 1..Len(js) |-> ModUTF8Unit(js[i])]) \o <<0>>

\* what a reader of a C string sees of a byte buffer: the bytes before the first NUL
RECURSIVE CStr(_)
CStr(b) == IF b = <<>> \/ Head(b) = 0 THEN <<>> ELSE <<Head(b)>> \o CStr(Tail(b))

\* string(c_file_name): std::string built from a NUL-terminated buffer
StdString(buf) == CStr(buf)

\* s.c_str(): the bytes of s followed by a terminator
c_str(s) == s \o <<0>>

\* host strings handed to the bridge, as character sequences
HostStrings == SeqsUpTo(CodePoints, MaxLen)

\* a string is usable as an OS argument iff it has no NUL byte
ValidOSArg(bytes) == \A i \in 1..Len(bytes) : bytes[i] # 0

\* what string(NULL) may yield when it yields a string at all
Garbage == {<<>>}

\* filenames a native caller can pass to open_editor
Filenames == {UTF8(cps) : cps \in SeqsUpTo(CodePoints \ {0}, MaxLen)}

(* ------------------------------- state --------------------------------- *)

VARIABLES
  pc,       \* pc[p]: position of process p in the helper's code
  life,     \* life[p]: "none", "alive", "zombie" (terminated, not reaped), "reaped"
  pid,      \* pid[p]: the local `pid` of open_editor, <<>> before fork returns
  filename, \* filename[p]: the bytes of open_editor's parameter in process p
  argv,     \* argv[p]: argument vector of the image p was replaced with
  trace,    \* trace[p]: what p wrote to cerr and how it exited, in order
  status,   \* status[p]: how p terminated
  others,   \* others.running, others.zombie: how many other children the host has
  held,     \* buffers obtained from GetStringUTFChars and not released
  ncalls,   \* invocations of open_editor so far; the n-th one forks child n
  via,      \* how the current invocation was entered: "none", "bridge", "native"
  arg,      \* the characters of the host string the current bridge call decoded
  decoded,  \* whether GetStringUTFChars of the current bridge call succeeded
  given,    \* given[k]: the filename open_editor was called with when it forked k
  asked,    \* asked[k]: via, arg and decoded of the invocation that forked k
  wret,     \* what wait() returned in the current invocation, <<>> before it
  wstatus   \* the status of the child that wait() collected, Running if none

vars == <<pc, life, pid, filename, argv, trace, status, others, held, ncalls,
          via, arg, decoded, given, asked, wret, wstatus>>

Running == [kind |-> "running", val |-> 0]

Exited(code) == [kind |-> "exited", val |-> code % 256]

Signaled(sig) == [kind |-> "signaled", val |-> sig]

\* the ways an editor can end: exit 0, exit 1, killed by SIGKILL
EditorStatuses == {Exited(0), Exited(1), Signaled(9)}

WriteEv(text) == [op |-> "write", text |-> text, code |-> 0]

FlushEv == [op |-> "flush", text |-> "", code |-> 0]

ExitEv(code) == [op |-> "exit", text |-> "", code |-> code]

NoCall == [via |-> "none", arg |-> <<>>, decoded |-> FALSE]

Init ==
  /\ pc = [p \in Procs |-> IF p = Host THEN "Idle" ELSE "none"]
  /\ life = [p \in Procs |-> IF p = Host THEN "alive" ELSE "none"]
  /\ pid = [p \in Procs |-> <<>>]
  /\ filename = [p \in Procs |-> <<>>]
  /\ argv = [p \in Procs |-> <<>>]
  /\ trace = [p \in Procs |-> <<>>]
  /\ status = [p \in Procs |-> Running]
  /\ others \in [running : 0..NumOther, zombie : {0}]
  /\ held = 0
  /\ ncalls = 0
  /\ via = "none"
  /\ arg = <<>>
  /\ decoded = FALSE
  /\ given = [k \in Kids |-> <<>>]
  /\ asked = [k \in Kids |-> NoCall]
  /\ wret = <<>>
  /\ wstatus = Running

(* --------------------------- the helper's code ------------------------- *)

MutBranchNoForkCheck(p) ==
  IF p = ForkChild THEN "exec" ELSE "Waiting"

\* main.cpp:8-13  where control goes on the value fork() returned
Branch(p) ==
  IF p = ForkError THEN "returnErr"
  ELSE IF p = ForkChild THEN "exec"
  ELSE "Waiting"

MutExecArgvNoArg0(ed, fn) == <<CStr(c_str(fn))>>

\* main.cpp:11  execlp(editor.c_str(), editor.c_str(), filename.c_str(), NULL)
ExecArgv(ed, fn) == <<CStr(c_str(ed)), CStr(c_str(fn))>>

MutAfterExecFailReturn == "Done"

\* main.cpp:12  goto returnErr
AfterExecFail == "returnErr"

MutAfterWaitChecked(st) == IF st = Exited(0) THEN "Done" ELSE "returnErr"

\* main.cpp:13-15  wait(nullptr); return;  the status is not looked at
AfterWait(st) == "Done"

MutDiagnosticNamesFile(fn) == IF fn = <<>> THEN DiagText ELSE "Unable to edit the file."

\* main.cpp:18  the line written to cerr
Diagnostic(fn) == DiagText

(* ------------------------------ the bridge ----------------------------- *)

\* entry into open_editor in the host process with filename fn
Enter(fn, how, cps, ok) ==
  /\ pc[Host] = "Idle"
  /\ ncalls < MaxCalls
  /\ ncalls' = ncalls + 1
  /\ pc' = [pc EXCEPT ![Host] = "Spawning"]
  /\ filename' = [filename EXCEPT ![Host] = fn]
  /\ pid' = [pid EXCEPT ![Host] = <<>>]
  /\ via' = how
  /\ arg' = cps
  /\ decoded' = ok
  /\ UNCHANGED <<life, argv, trace, status, others, given, asked, wret, wstatus>>

\* main.cpp:24-30, GetStringUTFChars returns a buffer: it is acquired, copied into
\* a std::string, and open_editor is entered; nothing releases it
BridgeCall(cps) ==
  /\ Enter(StdString(GetStringUTFChars(UTF16(cps))), "bridge", cps, TRUE)
  /\ held' = held + 1

\* main.cpp:28-30, GetStringUTFChars returns NULL: string(NULL) is undefined
\* behaviour; one outcome is that the process is killed there
BridgeNullCrash ==
  /\ pc[Host] = "Idle"
  /\ ncalls < MaxCalls
  /\ ncalls' = ncalls + 1
  /\ pc' = [pc EXCEPT ![Host] = "Crashed"]
  /\ life' = [life EXCEPT ![Host] = "zombie"]
  /\ status' = [status EXCEPT ![Host] = Signaled(11)]
  /\ via' = "bridge"
  /\ arg' = <<>>
  /\ decoded' = FALSE
  /\ UNCHANGED <<pid, filename, argv, trace, others, held, given, asked, wret, wstatus>>

\* main.cpp:28-30, GetStringUTFChars returns NULL: the other outcome of
\* string(NULL) is some string, with which open_editor is entered
BridgeNullGarbage(fn) ==
  /\ Enter(fn, "bridge", <<>>, FALSE)
  /\ UNCHANGED held

\* main.h:15, open_editor called by native code
NativeCall(fn) ==
  /\ Enter(fn, "native", <<>>, TRUE)
  /\ UNCHANGED held

\* main.cpp:15 and 31, open_editor and the bridge return to the caller: the
\* locals of the invocation are gone, the buffer of the bridge is still held
Return ==
  /\ pc[Host] = "Done"
  /\ pc' = [pc EXCEPT ![Host] = "Idle"]
  /\ filename' = [filename EXCEPT ![Host] = <<>>]
  /\ pid' = [pid EXCEPT ![Host] = <<>>]
  /\ via' = "none"
  /\ arg' = <<>>
  /\ decoded' = FALSE
  /\ wret' = <<>>
  /\ wstatus' = Running
  /\ UNCHANGED <<life, argv, trace, status, others, held, ncalls, given, asked>>

(* ------------------------------ open_editor ---------------------------- *)

\* main.cpp:6-9, fork() fails
ForkFail ==
  /\ pc[Host] = "Spawning"
  /\ pid' = [pid EXCEPT ![Host] = <<ForkError>>]
  /\ pc' = [pc EXCEPT ![Host] = Branch(ForkError)]
  /\ UNCHANGED <<life, filename, argv, trace, status, others, held, ncalls,
                 via, arg, decoded, given, asked, wret, wstatus>>

\* main.cpp:6-13, fork() succeeds: child ncalls starts with a copy of the locals
ForkOk ==
  /\ pc[Host] = "Spawning"
  /\ LET k == ncalls IN
       /\ pid' = [pid EXCEPT ![Host] = <<k>>, ![k] = <<ForkChild>>]
       /\ pc' = [pc EXCEPT ![Host] = Branch(k), ![k] = Branch(ForkChild)]
       /\ life' = [life EXCEPT ![k] = "alive"]
       /\ filename' = [filename EXCEPT ![k] = filename[Host]]
       /\ given' = [given EXCEPT ![k] = filename[Host]]
       /\ asked' = [asked EXCEPT ![k] = [via |-> via, arg |-> arg, decoded |-> decoded]]
  /\ UNCHANGED <<argv, trace, status, others, held, ncalls, via, arg, decoded,
                 wret, wstatus>>

\* main.cpp:11, execlp succeeds: the child becomes the editor
ExecOk(k) ==
  /\ pc[k] = "exec"
  /\ pc' = [pc EXCEPT ![k] = "editor"]
  /\ argv' = [argv EXCEPT ![k] = ExecArgv(editor, filename[k])]
  /\ filename' = [filename EXCEPT ![k] = <<>>]
  /\ pid' = [pid EXCEPT ![k] = <<>>]
  /\ UNCHANGED <<life, trace, status, others, held, ncalls, via, arg, decoded,
                 given, asked, wret, wstatus>>

\* main.cpp:11-12, execlp returns: goto returnErr
ExecFail(k) ==
  /\ pc[k] = "exec"
  /\ pc' = [pc EXCEPT ![k] = AfterExecFail]
  /\ UNCHANGED <<life, pid, filename, argv, trace, status, others, held, ncalls,
                 via, arg, decoded, given, asked, wret, wstatus>>

\* main.cpp:18, cerr << "..." << endl: the line and its newline are written
\* (endl also flushes; the explicit flush of line 19 is the next statement)
WriteDiag(p) ==
  /\ pc[p] = "returnErr"
  /\ trace' = [trace EXCEPT ![p] = Append(@, WriteEv(Diagnostic(filename[p])))]
  /\ pc' = [pc EXCEPT ![p] = "flush"]
  /\ UNCHANGED <<life, pid, filename, argv, status, others, held, ncalls,
                 via, arg, decoded, given, asked, wret, wstatus>>

\* main.cpp:19, flush(cerr)
FlushErr(p) ==
  /\ pc[p] = "flush"
  /\ trace' = [trace EXCEPT ![p] = Append(@, FlushEv)]
  /\ pc' = [pc EXCEPT ![p] = "exit"]
  /\ UNCHANGED <<life, pid, filename, argv, status, others, held, ncalls,
                 via, arg, decoded, given, asked, wret, wstatus>>

\* main.cpp:20, exit(-1): the process that runs it terminates
Exit(p) ==
  /\ pc[p] = "exit"
  /\ trace' = [trace EXCEPT ![p] = Append(@, ExitEv(ExitCode))]
  /\ pc' = [pc EXCEPT ![p] = "Fatal"]
  /\ life' = [life EXCEPT ![p] = "zombie"]
  /\ status' = [status EXCEPT ![p] = Exited(ExitCode)]
  /\ UNCHANGED <<pid, filename, argv, others, held, ncalls,
                 via, arg, decoded, given, asked, wret, wstatus>>

\* the editor terminates, with any status
EditorExit(k, st) ==
  /\ pc[k] = "editor"
  /\ life[k] = "alive"
  /\ life' = [life EXCEPT ![k] = "zombie"]
  /\ status' = [status EXCEPT ![k] = st]
  /\ UNCHANGED <<pc, pid, filename, argv, trace, others, held, ncalls,
                 via, arg, decoded, given, asked, wret, wstatus>>

\* another child of the host process terminates
OtherExit ==
  /\ others.running > 0
  /\ others' = [running |-> others.running - 1, zombie |-> others.zombie + 1]
  /\ UNCHANGED <<pc, life, pid, filename, argv, trace, status, held, ncalls,
                 via, arg, decoded, given, asked, wret, wstatus>>

\* main.cpp:13, wait(nullptr) returns a terminated child created by open_editor:
\* wait takes whichever child of the caller has terminated
WaitReapsKid(k) ==
  /\ pc[Host] = "Waiting"
  /\ life[k] = "zombie"
  /\ life' = [life EXCEPT ![k] = "reaped"]
  /\ wret' = <<k>>
  /\ wstatus' = status[k]
  /\ pc' = [pc EXCEPT ![Host] = AfterWait(status[k]), ![k] = "none"]
  /\ pid' = [pid EXCEPT ![k] = <<>>]
  /\ filename' = [filename EXCEPT ![k] = <<>>]
  /\ argv' = [argv EXCEPT ![k] = <<>>]
  /\ trace' = [trace EXCEPT ![k] = <<>>]
  /\ status' = [status EXCEPT ![k] = Running]
  /\ given' = [given EXCEPT ![k] = <<>>]
  /\ asked' = [asked EXCEPT ![k] = NoCall]
  /\ UNCHANGED <<others, held, ncalls, via, arg, decoded>>

\* main.cpp:13, wait(nullptr) returns another terminated child of the host
WaitReapsOther ==
  /\ pc[Host] = "Waiting"
  /\ others.zombie > 0
  /\ others' = [others EXCEPT !.zombie = @ - 1]
  /\ wret' = <<OtherPid>>
  /\ wstatus' = Exited(0)
  /\ pc' = [pc EXCEPT ![Host] = AfterWait(Exited(0))]
  /\ UNCHANGED <<life, pid, filename, argv, trace, status, held, ncalls,
                 via, arg, decoded, given, asked>>

\* main.cpp:13, wait(nullptr) is interrupted by a signal handler and returns -1
WaitInterrupted ==
  /\ pc[Host] = "Waiting"
  /\ wret' = <<WaitError>>
  /\ pc' = [pc EXCEPT ![Host] = AfterWait(Running)]
  /\ UNCHANGED <<life, pid, filename, argv, trace, status, others, held, ncalls,
                 via, arg, decoded, given, asked, wstatus>>

Next ==
  \/ \E cps \in HostStrings : BridgeCall(cps)
  \/ BridgeNullCrash
  \/ \E fn \in Garbage : BridgeNullGarbage(fn)
  \/ \E fn \in Filenames : NativeCall(fn)
  \/ Return
  \/ ForkFail
  \/ ForkOk
  \/ \E k \in Kids : ExecOk(k)
  \/ \E k \in Kids : ExecFail(k)
  \/ \E p \in Procs : WriteDiag(p)
  \/ \E p \in Procs : FlushErr(p)
  \/ \E p \in Procs : Exit(p)
  \/ \E k \in Kids : \E st \in EditorStatuses : EditorExit(k, st)
  \/ OtherExit
  \/ \E k \in Kids : WaitReapsKid(k)
  \/ WaitReapsOther
  \/ WaitInterrupted

Spec == Init /\ [][Next]_vars

(* ------------------------------ properties ----------------------------- *)

\* the statements of the shared returnErr block, in the order they run
FatalTrace == <<WriteEv(DiagText), FlushEv, ExitEv(ExitCode)>>

FatalPath == {"returnErr", "flush", "exit", "Fatal"}

\* the current invocation of open_editor forked child k
Forked(k) == pid[Host] = <<k>>

\* C1: whenever the parent has returned from open_editor after a successful fork,
\* the wait of that invocation has returned the pid of the child it forked and
\* that child has been reaped, whatever other children the host has and whatever
\* made wait return.
C1_ReturnsOnlyAfterReapingItsChild ==
  pc[Host] = "Done" =>
    /\ wret = pid[Host]
    /\ \A k \in Kids : Forked(k) => life[k] = "reaped"

\* C2: after a failure of fork, or of the exec in the child of the current
\* invocation, the host process is on the fatal path and has not returned
\* normally from open_editor.
C2_SpawnOrExecFailureIsFatalToHost ==
  /\ pid[Host] = <<ForkError>> => pc[Host] \in FatalPath
  /\ \A k \in Kids :
       (Forked(k) /\ (pc[k] = "Fatal" \/ (wret = <<k>> /\ wstatus = Exited(ExitCode))))
         => pc[Host] # "Done"

\* C3: when fork returned -1 the host is on the fatal path, wait has not been
\* called and has returned nothing, no child exists for the invocation, and once
\* the host has terminated it has written the diagnostic and exited with the
\* status of exit(-1), which is not zero.
C3_ForkFailureIsFatalWithoutWait ==
  pid[Host] = <<ForkError>> =>
    /\ pc[Host] \in FatalPath
    /\ wret = <<>>
    /\ life[ncalls] = "none"
    /\ pc[Host] = "Fatal" =>
         /\ trace[Host] = FatalTrace
         /\ status[Host] = Exited(ExitCode)
         /\ status[Host].val # 0

C3_Witness ==
  /\ pid[Host] = <<ForkError>>
  /\ pc[Host] = "Fatal"
  /\ filename[Host] # <<>>

\* C4: every child that has become the editor runs with the argument vector
\* ["vi", F], F being the filename open_editor was called with, byte for byte.
C4_ExecArgvIsEditorAndFilename ==
  \A k \in Kids : pc[k] = "editor" => argv[k] = <<editor, given[k]>>

C4_Witness ==
  \E k \in Kids :
    /\ pc[k] = "editor"
    /\ asked[k].via = "native"
    /\ Len(given[k]) > 1
    /\ argv[k] = <<editor, given[k]>>

\* C5: when the wait of the invocation has collected the child the invocation
\* forked, the parent has returned normally, has written nothing to cerr and is
\* alive, whatever the status of the child is.
C5_ParentIgnoresEditorStatus ==
  \A k \in Kids :
    (Forked(k) /\ wret = <<k>>) =>
      /\ pc[Host] = "Done"
      /\ trace[Host] = <<>>
      /\ life[Host] = "alive"

C5_Witness ==
  \E k \in Kids :
    /\ Forked(k)
    /\ wret = <<k>>
    /\ wstatus = Signaled(9)
    /\ pc[Host] = "Done"

\* C6: for every string S without a NUL byte, the editor forked by a bridge call
\* with the host string of S's characters has argv = ["vi", S], S in UTF-8.
C6_BridgeRoundTrip ==
  \A k \in Kids :
    (/\ pc[k] = "editor"
     /\ asked[k].via = "bridge"
     /\ asked[k].decoded
     /\ ValidOSArg(UTF8(asked[k].arg)))
      => argv[k] = <<editor, UTF8(asked[k].arg)>>

\* C7: a child of open_editor is never in wait and never returns from
\* open_editor; once its exec has failed and it has terminated, it has written
\* the diagnostic and exited with the status of exit(-1).
C7_ChildExecFailureIsFatalToChild ==
  \A k \in Kids :
    /\ pc[k] \notin {"Spawning", "Waiting", "Done", "Idle"}
    /\ pc[k] = "Fatal" =>
         /\ trace[k] = FatalTrace
         /\ status[k] = Exited(ExitCode)
         /\ life[k] = "zombie"

C7_Witness ==
  \E k \in Kids : pc[k] = "Fatal" /\ pc[Host] = "Waiting"

\* C8: on the fatal path every process writes one diagnostic line, then flushes,
\* then exits: a process about to flush has written exactly the line, one about
\* to exit has written and flushed, and a terminated one has done all three in
\* that order with status exit(-1); the line is the same for every filename.
C8_WriteFlushExitInOrder ==
  \A p \in Procs :
    /\ pc[p] = "returnErr" => trace[p] = <<>>
    /\ pc[p] = "flush" => trace[p] = SubSeq(FatalTrace, 1, 1)
    /\ pc[p] = "exit" => trace[p] = SubSeq(FatalTrace, 1, 2)
    /\ pc[p] = "Fatal" => trace[p] = FatalTrace /\ status[p] = Exited(ExitCode)

C8_Witness ==
  \E k \in Kids :
    /\ pc[k] = "Fatal"
    /\ filename[k] # <<>>
    /\ trace[k] = FatalTrace

\* C9: when the decode of the host string returned null, the host is on the
\* fatal path of the launcher and the invocation has forked no child.
C9_NullDecodeIsFatal ==
  (via = "bridge" /\ ~decoded) =>
    /\ pc[Host] \in FatalPath
    /\ pid[Host] \in {<<>>, <<ForkError>>}

\* C10: whenever the host is outside the bridge, no buffer acquired by a bridge
\* call is still held.
C10_NoBufferHeldAfterReturn ==
  pc[Host] = "Idle" => held = 0

====
